---- MODULE Spec2Model ----
(***************************************************************************)
(* Model of go-toschool/palermo: the stateless dual-token session service  *)
(* (src/jwt/jwt.go) together with the JWT parsing it relies on.            *)
(*                                                                         *)
(* Time is counted in ticks, TicksPerSec ticks to a second, so that the    *)
(* truncation done by time.Time.Unix() is visible.  A token string is a    *)
(* record of its dot-separated segments; an HMAC is the record of what was *)
(* signed and with which key (two HMACs are equal iff key, algorithm and   *)
(* payload are equal).                                                     *)
(***************************************************************************)
EXTENDS Integers, Sequences, FiniteSets, TLC

VARIABLES uss, now, minted, rnd, res, calls

vars == <<uss, now, minted, rnd, res, calls>>

---------------------------------------------------------------------------
(* Bounds of the model *)

TicksPerSec == 2

MaxTime == 6

MaxMinted == 2

---------------------------------------------------------------------------
(* Configuration and input domains *)

authSecretKey == "palermoAuthSecretKey"

OtherKey == "attackerKey"

\* the max-age settings explored: none, one second, one second and a half
MaxAges == {0, TicksPerSec, TicksPerSec + 1}

IDs == {"id1"}

UserIDs == {"u1"}

Emails == {"a@x", "b@x"}

Tokens == {"t1"}

---------------------------------------------------------------------------
(* time.Time <-> Unix seconds *)

Unix(t) == t \div TicksPerSec

TimeUnix(sec) == sec * TicksPerSec

Add(t, d) == t + d

---------------------------------------------------------------------------
(* Errors *)

NoErr == [type |-> "nil", flags |-> {}, field |-> ""]

ValidationError(fl) == [type |-> "validation", flags |-> fl, field |-> ""]

MismatchError(f) == [type |-> "mismatch", flags |-> {}, field |-> f]

EntropyError == [type |-> "entropy", flags |-> {}, field |-> ""]

---------------------------------------------------------------------------
(* Sessions and claims *)

NoSession ==
    [ID |-> "", UserID |-> "", Email |-> "", Token |-> "",
     CreatedAt |-> 0, UpdatedAt |-> 0]

\* new(sessionClaims): the zero value
ZeroClaims ==
    [Id |-> 0, Issuer |-> "", Subject |-> "", IssuedAt |-> 0, ExpiresAt |-> 0,
     ID |-> "", UserID |-> "", Token |-> "", Email |-> "",
     CreatedAt |-> 0, UpdatedAt |-> 0]

\* json.Marshal of a sessionClaims: Token is tagged json:"-" and is not
\* written; the omitempty fields are written unless zero, which reads back
\* as zero.
Marshal(c) ==
    [jti |-> c.Id, iss |-> c.Issuer, sub |-> c.Subject,
     iat |-> c.IssuedAt, exp |-> c.ExpiresAt,
     id |-> c.ID, user_id |-> c.UserID, email |-> c.Email,
     created_at |-> c.CreatedAt, updated_at |-> c.UpdatedAt]

\* json decoding into a fresh sessionClaims: Token is never read.
Unmarshal(j) ==
    [Id |-> j.jti, Issuer |-> j.iss, Subject |-> j.sub,
     IssuedAt |-> j.iat, ExpiresAt |-> j.exp,
     ID |-> j.id, UserID |-> j.user_id, Token |-> "", Email |-> j.email,
     CreatedAt |-> j.created_at, UpdatedAt |-> j.updated_at]

\* sessionClaims.Session()
ClaimsSession(sc) ==
    [ID |-> sc.ID, Email |-> sc.Email, UserID |-> sc.UserID, Token |-> sc.Token,
     CreatedAt |-> TimeUnix(sc.CreatedAt), UpdatedAt |-> TimeUnix(sc.UpdatedAt)]

---------------------------------------------------------------------------
(* Token strings *)

HMACAlgs == {"HS256", "HS384", "HS512"}

RegisteredAlgs == HMACAlgs \cup {"none", "RS256"}

HMAC(key, alg, payload) == [key |-> key, alg |-> alg, payload |-> payload]

NoSig == HMAC("", "", Marshal(ZeroClaims))

\* a well-formed three-segment token string
Token3(alg, payload, sig) ==
    [parts |-> 3, hdr |-> TRUE, alg |-> alg, payload |-> payload, sig |-> sig]

\* the empty string: a single (empty) segment
EmptyToken ==
    [parts |-> 1, hdr |-> FALSE, alg |-> "", payload |-> Marshal(ZeroClaims), sig |-> NoSig]

\* three segments whose header does not decode
BadHeaderToken ==
    [parts |-> 3, hdr |-> FALSE, alg |-> "", payload |-> Marshal(ZeroClaims), sig |-> NoSig]

\* SessionService.tokenString: HS256 over the marshalled claims
tokenString(svc, claims) ==
    Token3("HS256", Marshal(claims), HMAC(svc.SecretKey, "HS256", Marshal(claims)))

---------------------------------------------------------------------------
(* jwt-go as called from tokenClaims *)

\* expiry taken to begin with the second exp itself
ClaimsValidFlags_expOnOrAfter(c, n) ==
    (IF c.ExpiresAt # 0 /\ n >= c.ExpiresAt THEN {"Expired"} ELSE {})
    \cup (IF c.IssuedAt # 0 /\ n < c.IssuedAt THEN {"IssuedAt"} ELSE {})

\* expiry tested with "differs from" in place of "later than"
ClaimsValidFlags_expDiffers(c, n) ==
    (IF c.ExpiresAt # 0 /\ n # c.ExpiresAt THEN {"Expired"} ELSE {})
    \cup (IF c.IssuedAt # 0 /\ n < c.IssuedAt THEN {"IssuedAt"} ELSE {})

\* StandardClaims.Valid at Unix second n: exp and iat are checked only when
\* set (non-zero); nbf is never set by this service.
ClaimsValidFlags(c, n) ==
    (IF c.ExpiresAt # 0 /\ n > c.ExpiresAt THEN {"Expired"} ELSE {})
    \cup (IF c.IssuedAt # 0 /\ n < c.IssuedAt THEN {"IssuedAt"} ELSE {})

\* SessionService.verifySigningMethod: the key, or an error for a method
\* outside the HMAC family
verifySigningMethod(svc, alg) ==
    IF alg \in HMACAlgs
    THEN [ok |-> TRUE, key |-> svc.SecretKey]
    ELSE [ok |-> FALSE, key |-> ""]

\* SigningMethodHMAC.Verify
VerifyHMAC(alg, payload, sig, key) == sig = HMAC(key, alg, payload)

\* jwt.ParseWithClaims(tokenStr, claims, uss.verifySigningMethod) at time t.
\* token is "nil" when no *Token is returned, "noclaims" when the returned
\* token's Claims were never set, "claims" when they hold the decoded claims.
ParseWithClaims(svc, tk, t) ==
    IF tk.parts # 3
    THEN [token |-> "nil", claims |-> ZeroClaims, err |-> ValidationError({"Malformed"})]
    ELSE IF ~tk.hdr
    THEN [token |-> "noclaims", claims |-> ZeroClaims, err |-> ValidationError({"Malformed"})]
    ELSE LET claims == Unmarshal(tk.payload)
             kf == verifySigningMethod(svc, tk.alg)
             vfl == ClaimsValidFlags(claims, Unix(t))
             sfl == IF VerifyHMAC(tk.alg, tk.payload, tk.sig, kf.key)
                    THEN {} ELSE {"SignatureInvalid"}
         IN  IF tk.alg \notin RegisteredAlgs \/ ~kf.ok
             THEN [token |-> "claims", claims |-> claims,
                   err |-> ValidationError({"Unverifiable"})]
             ELSE IF vfl \cup sfl = {}
             THEN [token |-> "claims", claims |-> claims, err |-> NoErr]
             ELSE [token |-> "claims", claims |-> claims,
                   err |-> ValidationError(vfl \cup sfl)]

\* SessionService.tokenClaims: token.Claims is read whatever the error, so a
\* nil token is a nil dereference.
tokenClaims(svc, tk, t) ==
    LET p == ParseWithClaims(svc, tk, t)
    IN  IF p.token = "nil"
        THEN [panic |-> TRUE, claims |-> ZeroClaims, err |-> p.err]
        ELSE [panic |-> FALSE, claims |-> p.claims, err |-> p.err]

\* SessionService.parseTokens: the auth token's error hides the validation
\* token's.
parseTokens(svc, authToken, valToken, t) ==
    LET a == tokenClaims(svc, authToken, t)
        v == tokenClaims(svc, valToken, t)
    IN  [panic |-> a.panic \/ v.panic,
         authClaims |-> a.claims, valClaims |-> v.claims,
         err |-> IF a.err # NoErr THEN a.err ELSE v.err]

\* any error that carries Expired taken for an expiry
isTokenExpired_anyExpired(err) ==
    /\ err.type = "validation"
    /\ "Expired" \in err.flags

\* the mask applied without its complement
isTokenExpired_noComplement(err) ==
    /\ err.type = "validation"
    /\ err.flags \cap {"Expired"} = {}

\* isTokenExpired: a ValidationError with no flag other than Expired
isTokenExpired(err) ==
    /\ err.type = "validation"
    /\ err.flags \ {"Expired"} = {}

\* exp compared before iat
validateClaims_expBeforeIat(lhs, rhs) ==
    IF lhs.Id # rhs.Id THEN MismatchError("jti")
    ELSE IF lhs.ExpiresAt # rhs.ExpiresAt THEN MismatchError("exp")
    ELSE IF lhs.IssuedAt # rhs.IssuedAt THEN MismatchError("iat")
    ELSE IF lhs.Subject # rhs.Subject THEN MismatchError("sub")
    ELSE IF lhs.Issuer # rhs.Issuer THEN MismatchError("iss")
    ELSE NoErr

\* the comparison of jti left out
validateClaims_noJti(lhs, rhs) ==
    IF lhs.IssuedAt # rhs.IssuedAt THEN MismatchError("iat")
    ELSE IF lhs.ExpiresAt # rhs.ExpiresAt THEN MismatchError("exp")
    ELSE IF lhs.Subject # rhs.Subject THEN MismatchError("sub")
    ELSE IF lhs.Issuer # rhs.Issuer THEN MismatchError("iss")
    ELSE NoErr

\* SessionService.validateClaims
validateClaims(lhs, rhs) ==
    IF lhs.Id # rhs.Id THEN MismatchError("jti")
    ELSE IF lhs.IssuedAt # rhs.IssuedAt THEN MismatchError("iat")
    ELSE IF lhs.ExpiresAt # rhs.ExpiresAt THEN MismatchError("exp")
    ELSE IF lhs.Subject # rhs.Subject THEN MismatchError("sub")
    ELSE IF lhs.Issuer # rhs.Issuer THEN MismatchError("iss")
    ELSE NoErr

---------------------------------------------------------------------------
(* The four operations of SessionService, as functions of their inputs *)

Panicked == [kind |-> "panic", s |-> NoSession, err |-> NoErr]

Failed(err) == [kind |-> "error", s |-> NoSession, err |-> err]

Returned(s) == [kind |-> "session", s |-> s, err |-> NoErr]

\* consistency validated before the parse error is looked at
SessionOp_validateFirst(svc, c, t) ==
    LET p == parseTokens(svc, c.AuthToken, c.ValidationToken, t)
        m == validateClaims(p.valClaims, p.authClaims)
    IN  IF p.panic THEN Panicked
        ELSE IF p.err # NoErr /\ ~isTokenExpired(p.err) THEN Failed(p.err)
        ELSE IF m # NoErr THEN Failed(m)
        ELSE IF p.err # NoErr THEN Failed(p.err)
        ELSE Returned(ClaimsSession(p.authClaims))

\* SessionService.Session
SessionOp(svc, c, t) ==
    LET p == parseTokens(svc, c.AuthToken, c.ValidationToken, t)
        m == validateClaims(p.valClaims, p.authClaims)
    IN  IF p.panic THEN Panicked
        ELSE IF p.err # NoErr THEN Failed(p.err)
        ELSE IF m # NoErr THEN Failed(m)
        ELSE Returned(ClaimsSession(p.authClaims))

\* expiry tolerated only during the second that follows exp
RefreshSessionOp_graceWindow(svc, c, t) ==
    LET p == parseTokens(svc, c.AuthToken, c.ValidationToken, t)
        m == validateClaims(p.valClaims, p.authClaims)
    IN  IF p.panic THEN Panicked
        ELSE IF p.err # NoErr /\ ~isTokenExpired(p.err) THEN Failed(p.err)
        ELSE IF p.err # NoErr /\ Unix(t) > p.authClaims.ExpiresAt + 1 THEN Failed(p.err)
        ELSE IF m # NoErr THEN Failed(m)
        ELSE Returned([ClaimsSession(p.authClaims) EXCEPT !.UpdatedAt = t])

\* refresh that restarts the session: created_at reset as well
RefreshSessionOp_resetsCreatedAt(svc, c, t) ==
    LET p == parseTokens(svc, c.AuthToken, c.ValidationToken, t)
        m == validateClaims(p.valClaims, p.authClaims)
    IN  IF p.panic THEN Panicked
        ELSE IF p.err # NoErr /\ ~isTokenExpired(p.err) THEN Failed(p.err)
        ELSE IF m # NoErr THEN Failed(m)
        ELSE Returned([ClaimsSession(p.authClaims) EXCEPT !.UpdatedAt = t, !.CreatedAt = t])

\* SessionService.RefreshSession
RefreshSessionOp(svc, c, t) ==
    LET p == parseTokens(svc, c.AuthToken, c.ValidationToken, t)
        m == validateClaims(p.valClaims, p.authClaims)
    IN  IF p.panic THEN Panicked
        ELSE IF p.err # NoErr /\ ~isTokenExpired(p.err) THEN Failed(p.err)
        ELSE IF m # NoErr THEN Failed(m)
        ELSE Returned([ClaimsSession(p.authClaims) EXCEPT !.UpdatedAt = t])

NoCreds == [ValidationToken |-> EmptyToken, AuthToken |-> EmptyToken]

\* generateRandomToken: the n-th value read from the entropy source
generateRandomToken(n) == n + 1

\* exp taken to be iat, maxAge left out
sessionCredentials_noMaxAge(svc, us, id, t) ==
    LET std == [ZeroClaims EXCEPT !.Id = id, !.Issuer = us.Token,
                                  !.Subject = us.Email,
                                  !.IssuedAt = Unix(t), !.ExpiresAt = Unix(t)]
    IN  [ValidationToken |-> tokenString(svc, std),
         AuthToken |-> tokenString(svc,
             [std EXCEPT !.ID = us.ID, !.UserID = us.UserID, !.Email = us.Email,
                         !.Token = us.Token,
                         !.CreatedAt = Unix(us.CreatedAt),
                         !.UpdatedAt = Unix(us.UpdatedAt)])]

\* SessionService.sessionCredentials with token id `id` read at time t
sessionCredentials(svc, us, id, t) ==
    LET iat == t
        exp == Add(iat, svc.MaxAge)
        std == [ZeroClaims EXCEPT !.Id = id, !.Issuer = us.Token,
                                  !.Subject = us.Email,
                                  !.IssuedAt = Unix(iat), !.ExpiresAt = Unix(exp)]
    IN  [ValidationToken |-> tokenString(svc, std),
         AuthToken |-> tokenString(svc,
             [std EXCEPT !.ID = us.ID, !.UserID = us.UserID, !.Email = us.Email,
                         !.Token = us.Token,
                         !.CreatedAt = Unix(us.CreatedAt),
                         !.UpdatedAt = Unix(us.UpdatedAt)])]

\* what CreateSession and UpdateSession return
CredsReturned(c) == [kind |-> "creds", out |-> c, err |-> NoErr]

CredsFailed(err) == [kind |-> "error", out |-> NoCreds, err |-> err]

\* SessionService.CreateSession: `entropy` tells whether the read of the
\* entropy source succeeds, n how many values were read from it before
CreateSessionOp(svc, us, entropy, n, t) ==
    IF entropy
    THEN CredsReturned(sessionCredentials(svc, us, generateRandomToken(n), t))
    ELSE CredsFailed(EntropyError)

\* an update whose tokens expire at once
UpdateSessionOp_noMaxAge(svc, us, entropy, n, t) ==
    IF entropy
    THEN CredsReturned(sessionCredentials_noMaxAge(svc, us, generateRandomToken(n), t))
    ELSE CredsFailed(EntropyError)

\* SessionService.UpdateSession
UpdateSessionOp(svc, us, entropy, n, t) ==
    IF entropy
    THEN CredsReturned(sessionCredentials(svc, us, generateRandomToken(n), t))
    ELSE CredsFailed(EntropyError)

---------------------------------------------------------------------------
(* Inputs *)

\* palermo.NewSession at time t: both timestamps are the creation time
NewSession(id, userID, email, token, t) ==
    [ID |-> id, UserID |-> userID, Email |-> email, Token |-> token,
     CreatedAt |-> t, UpdatedAt |-> t]

\* the sessions handed to CreateSession/UpdateSession at time t (the server
\* stamps them with time.Now() just before the call)
InputSessions(t) ==
    {NewSession(id, u, e, k, t) :
        id \in IDs, u \in UserIDs, e \in Emails, k \in Tokens}

\* what a party without the secret key can make of a token it has seen:
\* the same payload signed with its own key, or declared unsigned
Forgeries(tk) ==
    {Token3("HS256", tk.payload, HMAC(OtherKey, "HS256", tk.payload)),
     Token3("none", tk.payload, NoSig)}

MintedTokens == UNION {{minted[i].c.ValidationToken, minted[i].c.AuthToken} : i \in DOMAIN minted}

TokenPool ==
    MintedTokens \cup UNION {Forgeries(tk) : tk \in MintedTokens}
    \cup {EmptyToken, BadHeaderToken}

---------------------------------------------------------------------------
(* The state machine *)

\* the goroutines that serve calls at the same time
Procs == {1, 2}

\* the zero value of what tokenClaims returns
NoParse == [panic |-> FALSE, claims |-> ZeroClaims, err |-> NoErr]

\* the locals of a goroutine that serves no call: pc is the statement it
\* is at, a and v are what the two calls of tokenClaims returned, id is
\* the token id read, at the time the call was made
IdleCall ==
    [pc |-> "idle", op |-> "none", c |-> NoCreds, in |-> NoSession,
     a |-> NoParse, v |-> NoParse, id |-> 0, at |-> 0,
     kind |-> "none", s |-> NoSession, err |-> NoErr, out |-> NoCreds]

\* no call is in progress and no result is pending
Idle ==
    [op |-> "none", c |-> NoCreds, in |-> NoSession, kind |-> "none",
     s |-> NoSession, err |-> NoErr, out |-> NoCreds, at |-> 0]

Init ==
    /\ uss \in [SecretKey : {authSecretKey}, MaxAge : MaxAges]
    /\ now = TicksPerSec
    /\ minted = << >>
    /\ rnd = 0
    /\ res = Idle
    /\ calls = [p \in Procs |-> IdleCall]

\* the clock advances between calls
Tick ==
    /\ res = Idle
    /\ now < MaxTime
    /\ now' = now + 1
    /\ UNCHANGED <<uss, minted, rnd, res, calls>>

\* a call of the minting operation op
Mint(op) ==
    /\ res = Idle
    /\ Len(minted) < MaxMinted
    /\ \E us \in InputSessions(now), entropy \in BOOLEAN :
         LET r == IF op = "CreateSession"
                  THEN CreateSessionOp(uss, us, entropy, rnd, now)
                  ELSE UpdateSessionOp(uss, us, entropy, rnd, now)
         IN  /\ res' = [op |-> op, c |-> NoCreds, in |-> us, kind |-> r.kind,
                        s |-> NoSession, err |-> r.err, out |-> r.out, at |-> now]
             /\ minted' = IF r.kind = "creds"
                          THEN Append(minted, [c |-> r.out, s |-> us, at |-> now])
                          ELSE minted
             /\ rnd' = IF entropy THEN rnd + 1 ELSE rnd
    /\ UNCHANGED <<uss, now, calls>>

CreateSession == Mint("CreateSession")

UpdateSession == Mint("UpdateSession")

Session ==
    /\ res = Idle
    /\ \E a \in TokenPool, v \in TokenPool :
         LET c == [ValidationToken |-> v, AuthToken |-> a]
             r == SessionOp(uss, c, now)
         IN  res' = [op |-> "Session", c |-> c, in |-> NoSession, kind |-> r.kind,
                     s |-> r.s, err |-> r.err, out |-> NoCreds, at |-> now]
    /\ UNCHANGED <<uss, now, minted, rnd, calls>>

RefreshSession ==
    /\ res = Idle
    /\ \E a \in TokenPool, v \in TokenPool :
         LET c == [ValidationToken |-> v, AuthToken |-> a]
             r == RefreshSessionOp(uss, c, now)
         IN  res' = [op |-> "RefreshSession", c |-> c, in |-> NoSession, kind |-> r.kind,
                     s |-> r.s, err |-> r.err, out |-> NoCreds, at |-> now]
    /\ UNCHANGED <<uss, now, minted, rnd, calls>>

\* the caller takes the result of the call
Return ==
    /\ res # Idle
    /\ res' = Idle
    /\ UNCHANGED <<uss, now, minted, rnd, calls>>

Next ==
    \/ Tick
    \/ Return
    \/ CreateSession
    \/ UpdateSession
    \/ Session
    \/ RefreshSession

Spec == Init /\ [][Next]_vars

---------------------------------------------------------------------------
(* The RPC handlers of AuthService (src/cmd/server/main.go) *)

\* auth.Session built from a palermo.Session: timestamps cross as Unix seconds
AuthSessionOf(s) ==
    [ID |-> s.ID, UserID |-> s.UserID, Email |-> s.Email, Token |-> s.Token,
     CreatedAt |-> Unix(s.CreatedAt), UpdatedAt |-> Unix(s.UpdatedAt)]

\* a handler's answer to a result of the session service: the error
\* unchanged, or the session as response data
Respond(r) ==
    IF r.kind = "session" THEN Returned(AuthSessionOf(r.s)) ELSE r

\* the handler answering plain lookup where refresh is meant
UpdateRPC_lookup(svc, data, t) == Respond(SessionOp(svc, data, t))

\* AuthService.Get
GetRPC(svc, data, t) ==
    Respond(SessionOp(svc,
        [ValidationToken |-> data.ValidationToken, AuthToken |-> data.AuthToken], t))

\* AuthService.Update
UpdateRPC(svc, data, t) ==
    Respond(RefreshSessionOp(svc,
        [ValidationToken |-> data.ValidationToken, AuthToken |-> data.AuthToken], t))

\* the session AuthService.Create hands to CreateSession
CreateRequestSession(data, t) ==
    [ID |-> data.ID, UserID |-> data.UserID, Email |-> data.Email,
     Token |-> data.Token, CreatedAt |-> t, UpdatedAt |-> t]

\* AuthService.Delete: return nil, nil
DeleteRPC == [kind |-> "nil", s |-> NoSession, err |-> NoErr]

\* the request data of Create: the timestamps sent are not looked at
CreateRequests ==
    {[ID |-> id, UserID |-> u, Email |-> e, Token |-> k, CreatedAt |-> 0, UpdatedAt |-> 0] :
        id \in IDs, u \in UserIDs, e \in Emails, k \in Tokens}

Get ==
    /\ res = Idle
    /\ \E a \in TokenPool, v \in TokenPool :
         LET c == [ValidationToken |-> v, AuthToken |-> a]
             r == GetRPC(uss, c, now)
         IN  res' = [op |-> "Get", c |-> c, in |-> NoSession, kind |-> r.kind,
                     s |-> r.s, err |-> r.err, out |-> NoCreds, at |-> now]
    /\ UNCHANGED <<uss, now, minted, rnd, calls>>

\* Update with new credentials minted for the refreshed session
Update_mints ==
    /\ res = Idle
    /\ \E a \in TokenPool, v \in TokenPool :
         LET c == [ValidationToken |-> v, AuthToken |-> a]
             r == UpdateRPC(uss, c, now)
             n == sessionCredentials(uss, r.s, generateRandomToken(rnd), now)
         IN  /\ res' = [op |-> "Update", c |-> c, in |-> NoSession, kind |-> r.kind,
                        s |-> r.s, err |-> r.err,
                        out |-> IF r.kind = "session" THEN n ELSE NoCreds, at |-> now]
             /\ minted' = IF r.kind = "session"
                          THEN Append(minted, [c |-> n, s |-> r.s, at |-> now])
                          ELSE minted
             /\ rnd' = IF r.kind = "session" THEN rnd + 1 ELSE rnd
    /\ UNCHANGED <<uss, now, calls>>

Update ==
    /\ res = Idle
    /\ \E a \in TokenPool, v \in TokenPool :
         LET c == [ValidationToken |-> v, AuthToken |-> a]
             r == UpdateRPC(uss, c, now)
         IN  res' = [op |-> "Update", c |-> c, in |-> NoSession, kind |-> r.kind,
                     s |-> r.s, err |-> r.err, out |-> NoCreds, at |-> now]
    /\ UNCHANGED <<uss, now, minted, rnd, calls>>

Create ==
    /\ res = Idle
    /\ Len(minted) < MaxMinted
    /\ \E data \in CreateRequests, entropy \in BOOLEAN :
         LET us == CreateRequestSession(data, now)
             r == CreateSessionOp(uss, us, entropy, rnd, now)
         IN  /\ res' = [op |-> "Create", c |-> NoCreds, in |-> us, kind |-> r.kind,
                        s |-> NoSession, err |-> r.err, out |-> r.out, at |-> now]
             /\ minted' = IF r.kind = "creds"
                          THEN Append(minted, [c |-> r.out, s |-> us, at |-> now])
                          ELSE minted
             /\ rnd' = IF entropy THEN rnd + 1 ELSE rnd
    /\ UNCHANGED <<uss, now, calls>>

\* Delete that revokes by replacing the signing key
Delete_rotatesKey ==
    /\ res = Idle
    /\ \E u \in UserIDs :
         res' = [op |-> "Delete", c |-> NoCreds, in |-> [NoSession EXCEPT !.UserID = u],
                 kind |-> DeleteRPC.kind, s |-> DeleteRPC.s, err |-> DeleteRPC.err,
                 out |-> NoCreds, at |-> now]
    /\ uss' = [uss EXCEPT !.SecretKey = OtherKey]
    /\ UNCHANGED <<now, minted, rnd, calls>>

Delete ==
    /\ res = Idle
    /\ \E u \in UserIDs :
         res' = [op |-> "Delete", c |-> NoCreds, in |-> [NoSession EXCEPT !.UserID = u],
                 kind |-> DeleteRPC.kind, s |-> DeleteRPC.s, err |-> DeleteRPC.err,
                 out |-> NoCreds, at |-> now]
    /\ UNCHANGED <<uss, now, minted, rnd, calls>>

NextRPC ==
    \/ Tick
    \/ Return
    \/ Get
    \/ Create
    \/ Update
    \/ Delete

SpecRPC == Init /\ [][NextRPC]_vars

---------------------------------------------------------------------------
(* The validation path on claim sets of any content: validateClaims on    *)
(* arbitrary claim sets, Session and RefreshSession on tokens whose iat    *)
(* and exp lie on either side of the verifier's clock                      *)

\* the seconds iat and exp are drawn from: the first second of the clock
\* and one that the clock reaches late or never
SkewSeconds == {Unix(TicksPerSec), Unix(TicksPerSec) + 2}

TokenIds == {generateRandomToken(0), generateRandomToken(1)}

Issuers == Tokens \cup {""}

\* the claim sets validateClaims is applied to
ClaimSets ==
    {[ZeroClaims EXCEPT !.Id = j, !.IssuedAt = i, !.ExpiresAt = e,
                        !.Subject = sb, !.Issuer = is, !.UserID = u] :
        j \in TokenIds, i \in SkewSeconds, e \in SkewSeconds,
        sb \in Emails, is \in Issuers, u \in UserIDs \cup {""}}

\* tokens of one session whose iat and exp are any of SkewSeconds, signed
\* with the service's key (issued under another clock) or with another key
SkewedTokens ==
    {LET pl == Marshal([ZeroClaims EXCEPT !.Id = generateRandomToken(0),
                                          !.IssuedAt = i, !.ExpiresAt = e])
     IN  Token3("HS256", pl, HMAC(k, "HS256", pl)) :
        i \in SkewSeconds, e \in SkewSeconds, k \in {authSecretKey, OtherKey}}

\* validateClaims(valClaims, authClaims) on two claim sets; the sets are
\* recorded as the tokens that carry them
ValidateClaims ==
    /\ res = Idle
    /\ \E lhs \in ClaimSets, rhs \in ClaimSets :
         LET m == validateClaims(lhs, rhs)
         IN  res' = [op |-> "validateClaims",
                     c |-> [ValidationToken |-> tokenString(uss, lhs),
                            AuthToken |-> tokenString(uss, rhs)],
                     in |-> NoSession, kind |-> IF m = NoErr THEN "ok" ELSE "error",
                     s |-> NoSession, err |-> m, out |-> NoCreds, at |-> now]
    /\ UNCHANGED <<uss, now, minted, rnd, calls>>

\* Session on a pair of SkewedTokens
SessionSkewed ==
    /\ res = Idle
    /\ \E a \in SkewedTokens, v \in SkewedTokens :
         LET c == [ValidationToken |-> v, AuthToken |-> a]
             r == SessionOp(uss, c, now)
         IN  res' = [op |-> "Session", c |-> c, in |-> NoSession, kind |-> r.kind,
                     s |-> r.s, err |-> r.err, out |-> NoCreds, at |-> now]
    /\ UNCHANGED <<uss, now, minted, rnd, calls>>

\* RefreshSession on a pair of SkewedTokens
RefreshSessionSkewed ==
    /\ res = Idle
    /\ \E a \in SkewedTokens, v \in SkewedTokens :
         LET c == [ValidationToken |-> v, AuthToken |-> a]
             r == RefreshSessionOp(uss, c, now)
         IN  res' = [op |-> "RefreshSession", c |-> c, in |-> NoSession, kind |-> r.kind,
                     s |-> r.s, err |-> r.err, out |-> NoCreds, at |-> now]
    /\ UNCHANGED <<uss, now, minted, rnd, calls>>

NextClaims ==
    \/ Tick
    \/ Return
    \/ ValidateClaims
    \/ SessionSkewed
    \/ RefreshSessionSkewed

SpecClaims == Init /\ [][NextClaims]_vars

---------------------------------------------------------------------------
(* Calls served at the same time: each goroutine of Procs runs one call of *)
(* the session service statement by statement, on locals of its own; the   *)
(* service, the clock and the entropy source are what the calls share      *)

\* what the callers present: the tokens of one session issued in the first
\* second of the clock, with either exp of SkewSeconds, and the empty string
ConcPool ==
    {tk \in SkewedTokens :
        tk.sig.key = authSecretKey /\ tk.payload.iat = Unix(TicksPerSec)}
    \cup {EmptyToken}

\* the clock advances between calls
TickBetweenCalls ==
    /\ \A p \in Procs : calls[p].pc = "idle"
    /\ Tick

\* the mints that have not read their token id yet
MintsPending == {q \in Procs : calls[q].pc = "entropy"}

\* a caller invokes Session or RefreshSession
CallLookup(p) ==
    /\ calls[p].pc = "idle"
    /\ \E op \in {"Session", "RefreshSession"}, a \in ConcPool, v \in ConcPool :
         calls' = [calls EXCEPT ![p] =
                      [IdleCall EXCEPT !.pc = "parseAuth", !.op = op, !.at = now,
                                       !.c = [ValidationToken |-> v, AuthToken |-> a]]]
    /\ UNCHANGED <<uss, now, minted, rnd, res>>

\* a caller invokes CreateSession or UpdateSession
CallMint(p) ==
    /\ calls[p].pc = "idle"
    /\ rnd + Cardinality(MintsPending) < MaxMinted
    /\ \E op \in {"CreateSession", "UpdateSession"}, us \in InputSessions(now) :
         calls' = [calls EXCEPT ![p] =
                      [IdleCall EXCEPT !.pc = "entropy", !.op = op, !.in = us,
                                       !.at = now]]
    /\ UNCHANGED <<uss, now, minted, rnd, res>>

\* the parse result written to the slot of every goroutine
ParseVal_sharedClaims(p) ==
    /\ calls[p].pc = "parseVal"
    /\ LET v == tokenClaims(uss, calls[p].c.ValidationToken, now)
       IN  calls' = [q \in Procs |->
                       IF q # p THEN [calls[q] EXCEPT !.v = v]
                       ELSE IF v.panic
                       THEN [calls[p] EXCEPT !.pc = "done", !.kind = "panic"]
                       ELSE [calls[p] EXCEPT !.pc = "check", !.v = v]]
    /\ UNCHANGED <<uss, now, minted, rnd, res>>

\* parseTokens, first statement: tokenClaims(authToken)
ParseAuth(p) ==
    /\ calls[p].pc = "parseAuth"
    /\ LET a == tokenClaims(uss, calls[p].c.AuthToken, now)
       IN  calls' = [calls EXCEPT ![p] =
                      IF a.panic
                      THEN [@ EXCEPT !.pc = "done", !.kind = "panic"]
                      ELSE [@ EXCEPT !.pc = "parseVal", !.a = a]]
    /\ UNCHANGED <<uss, now, minted, rnd, res>>

\* parseTokens, second statement: tokenClaims(valToken)
ParseVal(p) ==
    /\ calls[p].pc = "parseVal"
    /\ LET v == tokenClaims(uss, calls[p].c.ValidationToken, now)
       IN  calls' = [calls EXCEPT ![p] =
                      IF v.panic
                      THEN [@ EXCEPT !.pc = "done", !.kind = "panic"]
                      ELSE [@ EXCEPT !.pc = "check", !.v = v]]
    /\ UNCHANGED <<uss, now, minted, rnd, res>>

\* the rest of parseTokens and what Session and RefreshSession do with its
\* results, up to the session built from the auth claims
Check(p) ==
    /\ calls[p].pc = "check"
    /\ LET l == calls[p]
           err == IF l.a.err # NoErr THEN l.a.err ELSE l.v.err
           m == validateClaims(l.v.claims, l.a.claims)
           fatal == IF l.op = "Session" THEN err # NoErr
                    ELSE err # NoErr /\ ~isTokenExpired(err)
       IN  calls' = [calls EXCEPT ![p] =
                      IF fatal
                      THEN [@ EXCEPT !.pc = "done", !.kind = "error", !.err = err]
                      ELSE IF m # NoErr
                      THEN [@ EXCEPT !.pc = "done", !.kind = "error", !.err = m]
                      ELSE IF l.op = "Session"
                      THEN [@ EXCEPT !.pc = "done", !.kind = "session",
                                     !.s = ClaimsSession(l.a.claims)]
                      ELSE [@ EXCEPT !.pc = "stamp", !.s = ClaimsSession(l.a.claims)]]
    /\ UNCHANGED <<uss, now, minted, rnd, res>>

\* RefreshSession: s.UpdatedAt = time.Now(); return s, nil
Stamp(p) ==
    /\ calls[p].pc = "stamp"
    /\ calls' = [calls EXCEPT ![p] =
                    [@ EXCEPT !.pc = "done", !.kind = "session", !.s.UpdatedAt = now]]
    /\ UNCHANGED <<uss, now, minted, rnd, res>>

\* sessionCredentials: the token id is read from the entropy source
ReadEntropy(p) ==
    /\ calls[p].pc = "entropy"
    /\ \E entropy \in BOOLEAN :
         IF entropy
         THEN /\ calls' = [calls EXCEPT ![p] =
                             [@ EXCEPT !.pc = "sign", !.id = generateRandomToken(rnd)]]
              /\ rnd' = rnd + 1
         ELSE /\ calls' = [calls EXCEPT ![p] =
                             [@ EXCEPT !.pc = "done", !.kind = "error",
                                       !.err = EntropyError]]
              /\ UNCHANGED rnd
    /\ UNCHANGED <<uss, now, minted, res>>

\* sessionCredentials: the clock is read and the two tokens are signed; the
\* pair is the goroutine's until the caller takes it
Sign(p) ==
    /\ calls[p].pc = "sign"
    /\ LET c == sessionCredentials(uss, calls[p].in, calls[p].id, now)
       IN  calls' = [calls EXCEPT ![p] =
                       [@ EXCEPT !.pc = "done", !.kind = "creds", !.out = c]]
    /\ UNCHANGED <<uss, now, minted, rnd, res>>

\* the caller takes the result of the call
ReturnCall(p) ==
    /\ calls[p].pc = "done"
    /\ calls' = [calls EXCEPT ![p] = IdleCall]
    /\ UNCHANGED <<uss, now, minted, rnd, res>>

NextConc ==
    \/ TickBetweenCalls
    \/ \E p \in Procs :
          \/ CallLookup(p)
          \/ CallMint(p)
          \/ ParseAuth(p)
          \/ ParseVal(p)
          \/ Check(p)
          \/ Stamp(p)
          \/ ReadEntropy(p)
          \/ Sign(p)
          \/ ReturnCall(p)

SpecConc == Init /\ [][NextConc]_vars

---------------------------------------------------------------------------
(* Vocabulary of the properties, stated on token strings and results       *)
(* without going through the service's own parsing                         *)

IsCall(op) == res.op = op /\ res.kind # "none"

WellFormed(tk) == tk.parts = 3 /\ tk.hdr

\* a valid HMAC signature under the service's key with a declared HMAC algorithm
GoodSignature(tk) ==
    /\ WellFormed(tk)
    /\ tk.alg \in HMACAlgs
    /\ tk.sig = HMAC(uss.SecretKey, tk.alg, tk.payload)

\* well formed, but signed with another key or declaring a non-HMAC algorithm
BadSignature(tk) == WellFormed(tk) /\ ~GoodSignature(tk)

ExpiredAt(tk, t) == tk.payload.exp # 0 /\ Unix(t) > tk.payload.exp

NotYetIssuedAt(tk, t) == tk.payload.iat # 0 /\ Unix(t) < tk.payload.iat

StdFields == {"jti", "iat", "exp", "sub", "iss"}

Agree(a, v) == \A f \in StdFields : a.payload[f] = v.payload[f]

ExpiredError == ValidationError({"Expired"})

\* the pair was minted together, as the i-th minting
IsMinted(c, i) == i \in DOMAIN minted /\ c = minted[i].c

\* one token of the i-th minting with the other token of the j-th
IsSwapped(c, i, j) ==
    /\ i \in DOMAIN minted /\ j \in DOMAIN minted /\ i # j
    /\ c.AuthToken = minted[i].c.AuthToken
    /\ c.ValidationToken = minted[j].c.ValidationToken

---------------------------------------------------------------------------
(* C1 *)

\* C1: Session(pair) returns a session only if both tokens carry a valid
\* HMAC signature under the secret key with a declared HMAC algorithm, both
\* are unexpired at the time of the call and the two claim sets agree on
\* jti, iat, exp, sub and iss; in every other case it returns an error and
\* no session.
C1_SessionOnlyIfBothValid ==
    IsCall("Session") =>
        LET a == res.c.AuthToken
            v == res.c.ValidationToken
            ok == /\ GoodSignature(a) /\ GoodSignature(v)
                  /\ ~ExpiredAt(a, res.at) /\ ~ExpiredAt(v, res.at)
                  /\ Agree(a, v)
        IN  /\ res.kind = "session" => ok
            /\ ~ok => res.kind = "error" /\ res.s = NoSession

---------------------------------------------------------------------------
(* C2 *)

\* C2: RefreshSession(pair) fails whenever either token has an invalid
\* signature or declares a non-HMAC algorithm, whatever the state of the
\* other token; expiry is the only parse failure it tolerates.
C2_RefreshRejectsBadSignature ==
    IsCall("RefreshSession") =>
        (BadSignature(res.c.AuthToken) \/ BadSignature(res.c.ValidationToken)
            => res.kind # "session")

---------------------------------------------------------------------------
(* C3 *)

\* C3: Session on the pair returned by CreateSession(s), while the pair is
\* unexpired, reconstructs a session whose id, user_id, email and token are
\* those of s.
C3_RoundTrip ==
    \A i \in DOMAIN minted :
        IsCall("Session") /\ IsMinted(res.c, i)
        /\ ~ExpiredAt(res.c.AuthToken, res.at) =>
            /\ res.kind = "session"
            /\ res.s.ID = minted[i].s.ID
            /\ res.s.UserID = minted[i].s.UserID
            /\ res.s.Email = minted[i].s.Email
            /\ res.s.Token = minted[i].s.Token

---------------------------------------------------------------------------
(* C4 *)

\* C4: for a minted pair whose exp has passed, Session fails with the
\* Expired error, and RefreshSession succeeds with an updated_at strictly
\* later than that of the session the pair was minted for.
C4_ExpiredPairRefreshes ==
    \A i \in DOMAIN minted :
        IsMinted(res.c, i) /\ ExpiredAt(res.c.AuthToken, res.at) =>
            /\ IsCall("Session") =>
                   res.kind = "error" /\ res.err = ExpiredError
            /\ IsCall("RefreshSession") =>
                   res.kind = "session" /\ res.s.UpdatedAt > minted[i].s.UpdatedAt

\* an expired minted pair has been refreshed
C4_Witness ==
    \E i \in DOMAIN minted :
        /\ IsCall("RefreshSession") /\ IsMinted(res.c, i)
        /\ ExpiredAt(res.c.AuthToken, res.at)
        /\ res.kind = "session"
---------------------------------------------------------------------------
(* C5 *)

\* C5 as stated: swapping either token of a minted pair with the token of
\* another minting makes Session fail with a credential-mismatch error, at
\* all times.
C5_SwapFailsWithMismatch ==
    \A i \in DOMAIN minted, j \in DOMAIN minted :
        IsCall("Session") /\ IsSwapped(res.c, i, j) =>
            res.kind = "error" /\ res.err.type = "mismatch"

\* C5 as amended: a swapped pair always makes Session fail; the error is the
\* jti mismatch when neither token is expired at the time of the call and
\* the Expired error when either is.
C5_SwapFails ==
    \A i \in DOMAIN minted, j \in DOMAIN minted :
        IsCall("Session") /\ IsSwapped(res.c, i, j) =>
            /\ res.kind = "error"
            /\ res.err =
                 IF ExpiredAt(res.c.AuthToken, res.at)
                    \/ ExpiredAt(res.c.ValidationToken, res.at)
                 THEN ExpiredError
                 ELSE MismatchError("jti")

\* Session was called, before expiry, on the tokens of two mintings of the
\* same session in the same second
C5_Witness ==
    \E i \in DOMAIN minted, j \in DOMAIN minted :
        /\ IsCall("Session") /\ IsSwapped(res.c, i, j)
        /\ minted[i].s = minted[j].s
        /\ ~ExpiredAt(res.c.AuthToken, res.at)
        /\ ~ExpiredAt(res.c.ValidationToken, res.at)
        /\ res.err = MismatchError("jti")

---------------------------------------------------------------------------
(* C6 *)

\* C6 as stated: with maxAge = 0, Session on a minted pair fails with
\* Expired at every time from the minting on, the minting second included;
\* RefreshSession succeeds with a new updated_at and the same user_id and
\* email.
C6_ZeroMaxAgeExpiresAtOnce ==
    \A i \in DOMAIN minted :
        uss.MaxAge = 0 /\ IsMinted(res.c, i) =>
            /\ IsCall("Session") =>
                   res.kind = "error" /\ res.err = ExpiredError
            /\ IsCall("RefreshSession") =>
                   /\ res.kind = "session"
                   /\ res.s.UpdatedAt = res.at
                   /\ res.s.UserID = minted[i].s.UserID
                   /\ res.s.Email = minted[i].s.Email

\* C6 as amended: with maxAge = 0, Session on a minted pair succeeds while
\* the clock still shows the minting second and fails with Expired from the
\* next second on; RefreshSession succeeds at every time, with updated_at
\* set to the time of the call and the same user_id and email.
C6_ZeroMaxAgeExpiresNextSecond ==
    \A i \in DOMAIN minted :
        uss.MaxAge = 0 /\ IsMinted(res.c, i) =>
            /\ IsCall("Session") /\ Unix(res.at) = Unix(minted[i].at) =>
                   res.kind = "session"
            /\ IsCall("Session") /\ Unix(res.at) > Unix(minted[i].at) =>
                   res.kind = "error" /\ res.err = ExpiredError
            /\ IsCall("RefreshSession") =>
                   /\ res.kind = "session"
                   /\ res.s.UpdatedAt = res.at
                   /\ res.s.UserID = minted[i].s.UserID
                   /\ res.s.Email = minted[i].s.Email

\* with maxAge = 0, Session was called in the second of the minting
C6_Witness ==
    \E i \in DOMAIN minted :
        /\ uss.MaxAge = 0 /\ IsCall("Session") /\ IsMinted(res.c, i)
        /\ Unix(res.at) = Unix(minted[i].at)
        /\ res.kind = "session"

---------------------------------------------------------------------------
(* C7 *)

\* the error of parsing one token alone
ParseError(tk) == ParseWithClaims(uss, tk, res.at).err

NonExpiryFailure(tk) ==
    ParseError(tk).type = "validation" /\ ParseError(tk).flags \ {"Expired"} # {}

\* C7: in Session, if the parse of either token fails for a reason other
\* than expiry, Session fails with that error, whatever the outcome of the
\* other parse.  (Stated for the calls in which both parses return; the
\* parses that do not are the subject of C9.)
C7_SessionReportsNonExpiryError ==
    IsCall("Session") /\ res.kind # "panic" =>
        LET a == res.c.AuthToken
            v == res.c.ValidationToken
        IN  NonExpiryFailure(a) \/ NonExpiryFailure(v) =>
                /\ res.kind = "error"
                /\ res.err \in {ParseError(t) : t \in {x \in {a, v} : NonExpiryFailure(x)}}

---------------------------------------------------------------------------
(* C8 *)

\* the first of jti, iat, exp, sub, iss on which the payloads differ
FirstDifference(a, v) ==
    IF a.payload.jti # v.payload.jti THEN "jti"
    ELSE IF a.payload.iat # v.payload.iat THEN "iat"
    ELSE IF a.payload.exp # v.payload.exp THEN "exp"
    ELSE IF a.payload.sub # v.payload.sub THEN "sub"
    ELSE "iss"

\* both validly signed, at least one expired, and the claim sets disagree
ExpiredAndInconsistent(c, t) ==
    /\ GoodSignature(c.AuthToken) /\ GoodSignature(c.ValidationToken)
    /\ ExpiredAt(c.AuthToken, t) \/ ExpiredAt(c.ValidationToken, t)
    /\ ~Agree(c.AuthToken, c.ValidationToken)

\* C8 as stated: Session validates consistency before giving the expiry
\* verdict, so an expired and inconsistent pair fails with the mismatch
\* error of the first differing field, and Expired is returned only for
\* consistent claim sets.
C8_MismatchBeforeExpired ==
    IsCall("Session") =>
        /\ ExpiredAndInconsistent(res.c, res.at) =>
               /\ res.kind = "error"
               /\ res.err = MismatchError(FirstDifference(res.c.AuthToken, res.c.ValidationToken))
        /\ GoodSignature(res.c.AuthToken) /\ GoodSignature(res.c.ValidationToken)
           /\ res.err = ExpiredError
               => Agree(res.c.AuthToken, res.c.ValidationToken)

\* C8 as amended: Session gives the expiry verdict before validating
\* consistency, so an expired and inconsistent pair fails with Expired, and
\* a mismatch error is returned only when both tokens parse without error
\* (validly signed, unexpired).
C8_ExpiredBeforeMismatch ==
    IsCall("Session") =>
        /\ ExpiredAndInconsistent(res.c, res.at) =>
               res.kind = "error" /\ res.err = ExpiredError
        /\ res.err.type = "mismatch" =>
               /\ res.kind = "error"
               /\ GoodSignature(res.c.AuthToken) /\ GoodSignature(res.c.ValidationToken)
               /\ ~ExpiredAt(res.c.AuthToken, res.at)
               /\ ~ExpiredAt(res.c.ValidationToken, res.at)
               /\ res.err.field = FirstDifference(res.c.AuthToken, res.c.ValidationToken)

\* Session was called on a validly signed, expired and inconsistent pair
C8_Witness ==
    /\ IsCall("Session")
    /\ ExpiredAndInconsistent(res.c, res.at)
    /\ res.err = ExpiredError

---------------------------------------------------------------------------
(* C9 *)

\* C9: a structurally malformed token string in either position makes
\* Session and RefreshSession return an error value: no abnormal
\* termination, no session.
C9_MalformedReturnsError ==
    IsCall("Session") \/ IsCall("RefreshSession") =>
        (~WellFormed(res.c.AuthToken) \/ ~WellFormed(res.c.ValidationToken)
            => res.kind = "error" /\ res.s = NoSession)

---------------------------------------------------------------------------
(* C10 *)

\* C10: every pair returned by CreateSession(s) or UpdateSession(s) encodes
\* in both tokens the same jti, iat and exp, sub = s.email and iss = s.token,
\* with iat the minting time and exp the minting time plus maxAge (both in
\* Unix seconds); the consistency validator accepts the pair.
C10_MintedPairConsistent ==
    (IsCall("CreateSession") \/ IsCall("UpdateSession")) /\ res.kind = "creds" =>
        LET v == res.out.ValidationToken.payload
            a == res.out.AuthToken.payload
        IN  /\ v.jti = a.jti /\ v.iat = a.iat /\ v.exp = a.exp
            /\ v.sub = res.in.Email /\ a.sub = res.in.Email
            /\ v.iss = res.in.Token /\ a.iss = res.in.Token
            /\ a.iat = Unix(res.at)
            /\ a.exp = Unix(res.at + uss.MaxAge)
            /\ uss.MaxAge % TicksPerSec = 0 => a.exp = a.iat + uss.MaxAge \div TicksPerSec
            /\ validateClaims(tokenClaims(uss, res.out.ValidationToken, res.at).claims,
                              tokenClaims(uss, res.out.AuthToken, res.at).claims) = NoErr

\* a pair has just been minted with a non-zero maxAge
C10_Witness ==
    /\ IsCall("CreateSession") \/ IsCall("UpdateSession")
    /\ res.kind = "creds"
    /\ uss.MaxAge > 0
    /\ res.out.AuthToken.payload.exp > res.out.AuthToken.payload.iat

---------------------------------------------------------------------------
(* C11 *)

\* the times before t at which a call could have been made
EarlierTimes(t) == {t0 \in TicksPerSec..t : t0 < t}

\* C11: Expired is terminal for Session: if Session on a pair has failed
\* with Expired at some time, Session on that pair fails at every later
\* time (the clock never goes back).
C11_ExpiredIsTerminal ==
    IsCall("Session") =>
        \A t0 \in EarlierTimes(res.at) :
            SessionOp(uss, res.c, t0) = Failed(ExpiredError) => res.kind = "error"

\* Session has been called at least a second after the same call had
\* failed with Expired
C11_Witness ==
    /\ IsCall("Session")
    /\ res.kind = "error"
    /\ \E t0 \in EarlierTimes(res.at) :
           /\ Unix(t0) < Unix(res.at)
           /\ SessionOp(uss, res.c, t0) = Failed(ExpiredError)

---------------------------------------------------------------------------
(* C12 *)

\* the i-th minted pair is the one presented, and it is expired
ExpiredMinted(c, i, t) == IsMinted(c, i) /\ ExpiredAt(c.AuthToken, t)

\* C12 as stated: refreshing an expired pair yields a freshly minted
\* credential pair for the refreshed session, and the old pair is discarded.
C12_RefreshMintsFreshPair ==
    \A i \in DOMAIN minted :
        IsCall("Update") /\ ExpiredMinted(res.c, i, res.at) =>
            /\ res.kind = "session"
            /\ res.out # NoCreds
            /\ res.out = minted[Len(minted)].c
            /\ res.out # res.c
            /\ \A t \in res.at..MaxTime : RefreshSessionOp(uss, res.c, t).kind # "session"

\* C12 as amended: refreshing an expired pair returns a new Session value
\* whose updated_at is the time of the call; no credential pair is minted
\* or returned, and the old pair is neither mutated nor discarded: the pairs
\* issued are left as they were and the old pair is still accepted by
\* RefreshSession at every later time.
C12_RefreshReturnsSessionOnly ==
    [][res'.op = "Update" /\ res.op = "none" =>
          /\ minted' = minted /\ rnd' = rnd /\ uss' = uss
          /\ res'.out = NoCreds
          /\ \A i \in DOMAIN minted :
                ExpiredMinted(res'.c, i, now) =>
                    /\ res'.kind = "session"
                    /\ res'.s.UpdatedAt = Unix(now)
                    /\ res'.s.UpdatedAt > Unix(minted[i].s.UpdatedAt)
                    /\ \A t \in now..MaxTime :
                          RefreshSessionOp(uss', res'.c, t).kind = "session"]_vars

\* Update has answered a call made with an expired minted pair
C12_Witness ==
    \E i \in DOMAIN minted :
        /\ IsCall("Update") /\ ExpiredMinted(res.c, i, res.at)
        /\ res.kind = "session"
        /\ res.out = NoCreds

---------------------------------------------------------------------------
(* C13 *)

\* both tokens validly signed, the claim sets consistent, the pair expired
ExpiredAndConsistent(c, t) ==
    /\ GoodSignature(c.AuthToken) /\ GoodSignature(c.ValidationToken)
    /\ Agree(c.AuthToken, c.ValidationToken)
    /\ ExpiredAt(c.AuthToken, t)
    /\ ~NotYetIssuedAt(c.AuthToken, t)

\* C13: Update invokes refresh, not plain lookup: on a consistent, validly
\* signed, expired pair Get fails with Expired while Update returns the
\* session; whenever the session service returns an error, Get and Update
\* return that error unchanged and no session data.
C13_UpdateInvokesRefresh ==
    /\ IsCall("Get") =>
          /\ ExpiredAndConsistent(res.c, res.at) =>
                res.kind = "error" /\ res.err = ExpiredError
          /\ SessionOp(uss, res.c, res.at).kind = "error" =>
                /\ res.kind = "error"
                /\ res.err = SessionOp(uss, res.c, res.at).err
                /\ res.s = NoSession
    /\ IsCall("Update") =>
          /\ ExpiredAndConsistent(res.c, res.at) =>
                /\ res.kind = "session"
                /\ res.s.ID = res.c.AuthToken.payload.id
                /\ res.s.UserID = res.c.AuthToken.payload.user_id
                /\ res.s.Email = res.c.AuthToken.payload.email
                /\ res.s.UpdatedAt = Unix(res.at)
          /\ RefreshSessionOp(uss, res.c, res.at).kind = "error" =>
                /\ res.kind = "error"
                /\ res.err = RefreshSessionOp(uss, res.c, res.at).err
                /\ res.s = NoSession

\* Update has returned the session of an expired, consistent pair
C13_Witness ==
    /\ IsCall("Update")
    /\ ExpiredAndConsistent(res.c, res.at)
    /\ res.kind = "session"

---------------------------------------------------------------------------
(* C16 *)

\* C16: Delete is a no-op for every user_id: the step of Delete returns
\* neither a result nor an error, changes nothing of the service, and every
\* pair minted before it gets from Get and Update the answer it got before.
C16_DeleteIsNoOp ==
    [][res'.op = "Delete" /\ res.op = "none" =>
          /\ res'.kind = "nil" /\ res'.err = NoErr
          /\ res'.s = NoSession /\ res'.out = NoCreds
          /\ minted' = minted /\ uss' = uss /\ rnd' = rnd
          /\ \A i \in DOMAIN minted :
                /\ GetRPC(uss', minted[i].c, now') = GetRPC(uss, minted[i].c, now)
                /\ UpdateRPC(uss', minted[i].c, now') = UpdateRPC(uss, minted[i].c, now)]_vars

\* Delete has run while a minted pair that Get accepts exists
C16_Witness ==
    /\ IsCall("Delete")
    /\ res.kind = "nil"
    /\ \E i \in DOMAIN minted : GetRPC(uss, minted[i].c, now).kind = "session"

---------------------------------------------------------------------------
(* C18 *)

\* C18: a successful RefreshSession returns the session encoded in the auth
\* token with only updated_at changed, to the current time: id, user_id,
\* email and created_at (in whole seconds) are those of the token, and the
\* step changes neither the pairs issued nor the service.
C18_RefreshChangesOnlyUpdatedAt ==
    [][res'.op = "RefreshSession" /\ res.op = "none" /\ res'.kind = "session" =>
          LET enc == ClaimsSession(Unmarshal(res'.c.AuthToken.payload))
          IN  /\ res'.s = [enc EXCEPT !.UpdatedAt = now]
              /\ res'.s.ID = res'.c.AuthToken.payload.id
              /\ res'.s.UserID = res'.c.AuthToken.payload.user_id
              /\ res'.s.Email = res'.c.AuthToken.payload.email
              /\ Unix(res'.s.CreatedAt) = res'.c.AuthToken.payload.created_at
              /\ res'.s.UpdatedAt = now
              /\ res'.c \in [ValidationToken : TokenPool, AuthToken : TokenPool]
              /\ minted' = minted /\ uss' = uss /\ rnd' = rnd /\ now' = now]_vars

\* a refresh has succeeded in a later second than the one the session
\* encoded in the token was created and last updated in
C18_Witness ==
    /\ IsCall("RefreshSession")
    /\ res.kind = "session"
    /\ Unix(res.at) > res.c.AuthToken.payload.updated_at
    /\ Unix(res.at) > res.c.AuthToken.payload.created_at
    /\ res.c.AuthToken.payload.id # ""

---------------------------------------------------------------------------
(* C19 *)

\* C19: refresh tolerance has no upper time bound: after every step, each
\* pair minted so far is refreshed successfully at every clock time from
\* its minting on, however long ago exp passed; a step of RefreshSession on
\* a minted pair succeeds and leaves the pairs and the service as they
\* were, so it can be repeated on the same pair.
C19_RefreshHasNoTimeBound ==
    [][/\ \A i \in DOMAIN minted' : \A t \in minted'[i].at..MaxTime :
              RefreshSessionOp(uss', minted'[i].c, t).kind = "session"
       /\ res'.op = "RefreshSession" /\ res.op = "none" =>
              /\ minted' = minted /\ uss' = uss
              /\ \A i \in DOMAIN minted :
                    IsMinted(res'.c, i) =>
                        /\ res'.kind = "session"
                        /\ RefreshSessionOp(uss', res'.c, now').kind = "session"]_vars

\* a minted pair has been refreshed two seconds or more after its exp
C19_Witness ==
    /\ IsCall("RefreshSession")
    /\ res.kind = "session"
    /\ \E i \in DOMAIN minted :
          /\ IsMinted(res.c, i)
          /\ Unix(res.at) >= res.c.AuthToken.payload.exp + 2

---------------------------------------------------------------------------
(* C15 *)

\* the outcome of the call recorded in res, as CreateSession/UpdateSession
\* return it
MintOutcome == [kind |-> res.kind, out |-> res.out, err |-> res.err]

\* C15: CreateSession and UpdateSession are the same operation: on every
\* session, with the same clock reading and the same read of the entropy
\* source, they return the same pair, or the same error when the read
\* fails; what a call of one has returned is what the other returns on the
\* same session, clock reading and token id.
C15_CreateIsUpdate ==
    /\ \A us \in InputSessions(now), entropy \in BOOLEAN :
          CreateSessionOp(uss, us, entropy, rnd, now)
              = UpdateSessionOp(uss, us, entropy, rnd, now)
    /\ IsCall("CreateSession") =>
          /\ res.kind \in {"creds", "error"}
          /\ res.kind = "creds" =>
                 UpdateSessionOp(uss, res.in, TRUE, rnd - 1, res.at) = MintOutcome
          /\ res.kind = "error" =>
                 /\ res.err = EntropyError
                 /\ UpdateSessionOp(uss, res.in, FALSE, rnd, res.at) = MintOutcome
    /\ IsCall("UpdateSession") =>
          /\ res.kind \in {"creds", "error"}
          /\ res.kind = "creds" =>
                 CreateSessionOp(uss, res.in, TRUE, rnd - 1, res.at) = MintOutcome
          /\ res.kind = "error" =>
                 /\ res.err = EntropyError
                 /\ CreateSessionOp(uss, res.in, FALSE, rnd, res.at) = MintOutcome

\* UpdateSession has minted a pair that outlives the second of its minting,
\* after a pair was minted before it
C15_Witness ==
    /\ IsCall("UpdateSession")
    /\ res.kind = "creds"
    /\ uss.MaxAge > 0
    /\ Len(minted) = 2
    /\ res.out = minted[2].c

---------------------------------------------------------------------------
(* C17 *)

\* the claim sets with the claims validateClaims does not compare replaced
OtherClaimsChanged(tk) ==
    {[tk EXCEPT !.payload.user_id = u, !.payload.email = e, !.payload.id = i] :
        u \in UserIDs \cup {""}, e \in Emails, i \in IDs}

\* C17: validateClaims compares jti, iat, exp, sub, iss in this order and
\* returns the error naming the first of them on which the two claim sets
\* differ; it returns no error exactly when all five are equal; the verdict
\* is the same whatever the other claims of the two sets are.
C17_FirstMismatchInFixedOrder ==
    IsCall("validateClaims") =>
        LET v == res.c.ValidationToken
            a == res.c.AuthToken
        IN  /\ res.err = IF Agree(a, v) THEN NoErr
                         ELSE MismatchError(FirstDifference(a, v))
            /\ res.err = NoErr <=> \A f \in StdFields : a.payload[f] = v.payload[f]
            /\ \A v2 \in OtherClaimsChanged(v), a2 \in OtherClaimsChanged(a) :
                  validateClaims(Unmarshal(v2.payload), Unmarshal(a2.payload)) = res.err

\* the verdict names iat on claim sets that differ in iat and in every
\* field that comes after it
C17_Witness ==
    /\ IsCall("validateClaims")
    /\ res.err = MismatchError("iat")
    /\ \A f \in StdFields \ {"jti"} :
          res.c.AuthToken.payload[f] # res.c.ValidationToken.payload[f]
    /\ res.c.AuthToken.payload.user_id # res.c.ValidationToken.payload.user_id

---------------------------------------------------------------------------
(* C20 *)

\* the error parseTokens reports for the pair of the call: the auth token's
\* if it has one, else the validation token's
ReportedError ==
    IF ParseError(res.c.AuthToken) # NoErr THEN ParseError(res.c.AuthToken)
    ELSE ParseError(res.c.ValidationToken)

\* C20: a failure of time validity other than expiry is never tolerated: if
\* the error parseTokens reports carries any flag besides Expired,
\* isTokenExpired is false of it and Session and RefreshSession fail with
\* it; Session fails on every reported error, and RefreshSession goes on
\* only past an error whose flags are exactly {Expired}.
C20_OnlyExpiryTolerated ==
    IsCall("Session") \/ IsCall("RefreshSession") =>
        /\ ReportedError.flags \ {"Expired"} # {} =>
              /\ ~isTokenExpired(ReportedError)
              /\ res.kind = "error"
              /\ res.err = ReportedError
        /\ IsCall("Session") /\ ReportedError # NoErr =>
              res.kind = "error" /\ res.err = ReportedError
        /\ IsCall("RefreshSession") /\ ReportedError # NoErr /\ res.err # ReportedError =>
              /\ ReportedError.flags = {"Expired"}
              /\ isTokenExpired(ReportedError)

\* RefreshSession has failed on a validly signed token that is expired and
\* whose iat lies in the future
C20_Witness ==
    /\ IsCall("RefreshSession")
    /\ res.kind = "error"
    /\ GoodSignature(res.c.AuthToken)
    /\ ExpiredAt(res.c.AuthToken, res.at)
    /\ NotYetIssuedAt(res.c.AuthToken, res.at)
    /\ res.err = ValidationError({"Expired", "IssuedAt"})

---------------------------------------------------------------------------
(* C14 *)

\* what the call with locals l has returned
CallResult(l) ==
    IF l.op \in {"Session", "RefreshSession"}
    THEN [kind |-> l.kind, s |-> l.s, err |-> l.err]
    ELSE [kind |-> l.kind, out |-> l.out, err |-> l.err]

\* what the call with locals l returns when it runs alone under service
\* svc, on the same inputs, clock reading and read of the entropy source
AloneResult(svc, l) ==
    IF l.op = "Session" THEN SessionOp(svc, l.c, l.at)
    ELSE IF l.op = "RefreshSession" THEN RefreshSessionOp(svc, l.c, l.at)
    ELSE IF l.op = "CreateSession"
    THEN CreateSessionOp(svc, l.in, l.kind = "creds", l.id - 1, l.at)
    ELSE UpdateSessionOp(svc, l.in, l.kind = "creds", l.id - 1, l.at)

\* C14: the session service holds no mutable state: no step of any call
\* changes the secret key or maxAge, and under every interleaving of the
\* statements of concurrent calls each call returns what it returns when
\* it runs alone on the same inputs, clock reading and token id.
C14_CallsDoNotInterfere ==
    [][/\ uss' = uss
       /\ \A p \in Procs :
             calls'[p].pc = "done" =>
                 /\ calls'[p].kind \in {"session", "creds", "error", "panic"}
                 /\ CallResult(calls'[p]) = AloneResult(uss, calls'[p])]_vars

\* two calls on different pairs are complete at the same time, neither
\* taken by its caller yet: a Session that returned a session and a
\* RefreshSession that failed on a mismatch
C14_Witness ==
    /\ calls[1].pc = "done" /\ calls[2].pc = "done"
    /\ calls[1].op = "Session" /\ calls[1].kind = "session"
    /\ calls[2].op = "RefreshSession" /\ calls[2].err = MismatchError("exp")
    /\ calls[1].c # calls[2].c

====
